---- MODULE Spec2Model ----
(***************************************************************************)
(* mockbuster: a model of the two analysis entry points                    *)
(*   extract_ignored_lines  (src/src/mockbuster/comments.py)               *)
(*   detect_mocks           (src/src/mockbuster/core.py)                   *)
(* A source text is described by its statements and layout; from that      *)
(* description the model derives the token stream tokenize.generate_tokens *)
(* yields and the tree ast.parse builds, and then runs the code of the two *)
(* entry points over them, one token and one tree node per step.           *)
(***************************************************************************)
EXTENDS Integers, Sequences, FiniteSets, TLC

(***************************************************************************)
(* Bounds of the model.                                                    *)
(***************************************************************************)
\* the longest run of layout lines (blank lines, comment-only lines) put
\* in front of a statement
MaxLead == 2
\* the longest decorator list / with-item list
MaxList == 2

\* Python's None for an optional line number (lines are 1-indexed)
None == 0
\* Python's None for an optional name
NoName == "<None>"

(***************************************************************************)
(* Text. A lexeme is a sequence of pieces: comments and string literals    *)
(* are spelled one character per piece, every other lexeme is one piece.   *)
(***************************************************************************)
LowerAlpha ==
  << "a","b","c","d","e","f","g","h","i","j","k","l","m",
     "n","o","p","q","r","s","t","u","v","w","x","y","z" >>
UpperAlpha ==
  << "A","B","C","D","E","F","G","H","I","J","K","L","M",
     "N","O","P","Q","R","S","T","U","V","W","X","Y","Z" >>
Digits == {"0","1","2","3","4","5","6","7","8","9"}

\* re.IGNORECASE: characters are compared after case folding
Lower(c) ==
  IF \E i \in 1..Len(UpperAlpha) : UpperAlpha[i] = c
  THEN LowerAlpha[CHOOSE i \in 1..Len(UpperAlpha) : UpperAlpha[i] = c]
  ELSE c

\* \s
IsSpace(c) == c \in {" ", "\t"}
\* \w
IsWordChar(c) ==
  \/ \E i \in 1..Len(LowerAlpha) : LowerAlpha[i] = Lower(c)
  \/ c \in Digits
  \/ c = "_"

\* the position after the longest run of \s starting at i   (\s*)
RECURSIVE SkipSpace(_, _)
SkipSpace(s, i) ==
  IF i <= Len(s) /\ IsSpace(s[i]) THEN SkipSpace(s, i + 1) ELSE i

\* whether the literal lit occurs in s at position i, case-insensitively
LiteralAt(s, i, lit) ==
  /\ i + Len(lit) - 1 <= Len(s)
  /\ \A k \in 1..Len(lit) : Lower(s[i + k - 1]) = lit[k]

LitMockbuster == << "m","o","c","k","b","u","s","t","e","r" >>
LitIgnore == << "i","g","n","o","r","e" >>

\* \b after a word character: the end of the text or a non-word character
WordBoundaryAt(s, i) == IF i > Len(s) THEN TRUE ELSE ~IsWordChar(s[i])

\* r"#\s*mockbuster\s*:\s*ignore\b" matched at position i.  Every \s* is
\* followed by a non-space literal, so the greedy match is the only one.
PatternAt(s, i) ==
  /\ i <= Len(s)
  /\ s[i] = "#"
  /\ LET a == SkipSpace(s, i + 1) IN
     /\ LiteralAt(s, a, LitMockbuster)
     /\ LET b == SkipSpace(s, a + Len(LitMockbuster)) IN
        /\ b <= Len(s)
        /\ s[b] = ":"
        /\ LET c == SkipSpace(s, b + 1) IN
           /\ LiteralAt(s, c, LitIgnore)
           /\ WordBoundaryAt(s, c + Len(LitIgnore))

\* re.search(pattern, token.string, re.IGNORECASE): a match at any position
ReSearch(s) == \E i \in 1..Len(s) : PatternAt(s, i)

(***************************************************************************)
(* Tokens, as tokenize.generate_tokens yields them.  Only the line of      *)
(* token.start is read by the code; the line of token.end is kept to say   *)
(* which physical lines a token covers.                                    *)
(***************************************************************************)
Tok(type, start, end, string) ==
  [type |-> type, start |-> start, end |-> end, string |-> string]
Tok1(type, line, piece) == Tok(type, line, line, <<piece>>)

(***************************************************************************)
(* Expressions of a source text, before they are given a line.             *)
(***************************************************************************)
EName(id) == [k |-> "Name", id |-> id]
EAttr(value, attr) == [k |-> "Attribute", value |-> value, attr |-> attr]
ECall(func, args) == [k |-> "Call", func |-> func, args |-> args]
EStr(text) == [k |-> "Constant", text |-> text]

\* the sequences of ss joined by sep
RECURSIVE Join(_, _)
Join(ss, sep) ==
  IF ss = <<>> THEN <<>>
  ELSE IF Len(ss) = 1 THEN ss[1]
  ELSE ss[1] \o sep \o Join(Tail(ss), sep)

\* the tokens of expression e written on line l
RECURSIVE ExprToks(_, _)
ExprToks(e, l) ==
  CASE e.k = "Name" -> << Tok1("NAME", l, e.id) >>
    [] e.k = "Attribute" ->
         ExprToks(e.value, l) \o << Tok1("OP", l, "."), Tok1("NAME", l, e.attr) >>
    [] e.k = "Call" ->
         ExprToks(e.func, l) \o << Tok1("OP", l, "(") >>
           \o Join([i \in 1..Len(e.args) |-> ExprToks(e.args[i], l)],
                   << Tok1("OP", l, ",") >>)
           \o << Tok1("OP", l, ")") >>
    [] e.k = "Constant" -> << Tok("STRING", l, l, e.text) >>

\* the tree ast.parse builds for expression e written on line l
RECURSIVE ExprNode(_, _)
ExprNode(e, l) ==
  CASE e.k = "Name" -> [type |-> "Name", id |-> e.id, lineno |-> l]
    [] e.k = "Attribute" ->
         [type |-> "Attribute", value |-> ExprNode(e.value, l),
          attr |-> e.attr, lineno |-> l]
    [] e.k = "Call" ->
         [type |-> "Call", func |-> ExprNode(e.func, l),
          args |-> [i \in 1..Len(e.args) |-> ExprNode(e.args[i], l)],
          lineno |-> l]
    [] e.k = "Constant" -> [type |-> "Constant", lineno |-> l]

(***************************************************************************)
(* Statements and layout lines of a source text.  tc is the text of a      *)
(* trailing comment on the statement's (last) line, <<>> when it has none. *)
(***************************************************************************)
SBlank == [k |-> "blank"]
SComment(text) == [k |-> "comment", text |-> text]
SPass == [k |-> "pass"]
SExpr(e, tc) == [k |-> "expr", e |-> e, tc |-> tc]
SAssign(target, e, tc) == [k |-> "assign", target |-> target, e |-> e, tc |-> tc]
\* x = """a          a string literal that ends on the next line
\* <text>"""  # tc
SMlStr(text, tc) == [k |-> "mlstr", text |-> text, tc |-> tc]
\* foo(              a call whose argument is on the next line
\*     <e>)  # tc
SMlCall(e, tc) == [k |-> "mlcall", e |-> e, tc |-> tc]
SDef(async, name, args, kwonlyargs, decos, tc, body) ==
  [k |-> "def", async |-> async, name |-> name, args |-> args,
   kwonlyargs |-> kwonlyargs, decos |-> decos, tc |-> tc, body |-> body]
SWith(async, items, tc, body) ==
  [k |-> "with", async |-> async, items |-> items, tc |-> tc, body |-> body]

TrailToks(tc, l) == IF tc = <<>> THEN <<>> ELSE << Tok("COMMENT", l, l, tc) >>

\* an INDENT before the first token of a block that is not a comment line
RECURSIVE InsertIndent(_)
InsertIndent(toks) ==
  IF toks = <<>> THEN <<>>
  ELSE IF toks[1].type \in {"COMMENT", "NL"}
       THEN << toks[1] >> \o InsertIndent(Tail(toks))
       ELSE << Tok("INDENT", toks[1].start, toks[1].start, <<" ">>) >> \o toks

\* the tokens of a parameter list
ParamToks(args, kwonlyargs, l) ==
  Join([i \in 1..Len(args) |-> << Tok1("NAME", l, args[i]) >>]
         \o (IF kwonlyargs = <<>> THEN <<>> ELSE << << Tok1("OP", l, "*") >> >>)
         \o [i \in 1..Len(kwonlyargs) |-> << Tok1("NAME", l, kwonlyargs[i]) >>],
       << Tok1("OP", l, ",") >>)

ArgNode(name, l) == [type |-> "arg", arg |-> name, lineno |-> l]

\* A statement d placed at line l: its height in lines, its tokens and the
\* statements it adds to the enclosing body.  The DEDENT closing a block is
\* left without a line here: PlaceDedents gives it its place.
RECURSIVE Build(_, _), BuildSeq(_, _)
Build(d, l) ==
  CASE d.k = "blank" ->
         [h |-> 1, toks |-> << Tok1("NL", l, "\n") >>, stmts |-> <<>>]
    [] d.k = "comment" ->
         [h |-> 1,
          toks |-> << Tok("COMMENT", l, l, d.text), Tok1("NL", l, "\n") >>,
          stmts |-> <<>>]
    [] d.k = "pass" ->
         [h |-> 1,
          toks |-> << Tok1("NAME", l, "pass"), Tok1("NEWLINE", l, "\n") >>,
          stmts |-> << [type |-> "Pass", lineno |-> l] >>]
    [] d.k = "expr" ->
         [h |-> 1,
          toks |-> ExprToks(d.e, l) \o TrailToks(d.tc, l)
                     \o << Tok1("NEWLINE", l, "\n") >>,
          stmts |-> << [type |-> "Expr", value |-> ExprNode(d.e, l),
                        lineno |-> l] >>]
    [] d.k = "assign" ->
         [h |-> 1,
          toks |-> << Tok1("NAME", l, d.target), Tok1("OP", l, "=") >>
                     \o ExprToks(d.e, l) \o TrailToks(d.tc, l)
                     \o << Tok1("NEWLINE", l, "\n") >>,
          stmts |-> << [type |-> "Assign",
                        targets |-> << [type |-> "Name", id |-> d.target,
                                        lineno |-> l] >>,
                        value |-> ExprNode(d.e, l), lineno |-> l] >>]
    [] d.k = "mlstr" ->
         [h |-> 2,
          toks |-> << Tok1("NAME", l, "x"), Tok1("OP", l, "="),
                      Tok("STRING", l, l + 1, d.text) >>
                     \o TrailToks(d.tc, l + 1)
                     \o << Tok1("NEWLINE", l + 1, "\n") >>,
          stmts |-> << [type |-> "Assign",
                        targets |-> << [type |-> "Name", id |-> "x",
                                        lineno |-> l] >>,
                        value |-> [type |-> "Constant", lineno |-> l],
                        lineno |-> l] >>]
    [] d.k = "mlcall" ->
         [h |-> 2,
          toks |-> << Tok1("NAME", l, "foo"), Tok1("OP", l, "("),
                      Tok1("NL", l, "\n") >>
                     \o ExprToks(d.e, l + 1)
                     \o << Tok1("OP", l + 1, ")") >>
                     \o TrailToks(d.tc, l + 1)
                     \o << Tok1("NEWLINE", l + 1, "\n") >>,
          stmts |-> << [type |-> "Expr",
                        value |-> [type |-> "Call",
                                   func |-> [type |-> "Name", id |-> "foo",
                                             lineno |-> l],
                                   args |-> << ExprNode(d.e, l + 1) >>,
                                   lineno |-> l],
                        lineno |-> l] >>]
    [] d.k = "def" ->
         LET nd == Len(d.decos)
             ld == l + nd
             b == BuildSeq(d.body, ld + 1)
         IN [h |-> nd + 1 + b.h,
             toks |->
               Join([i \in 1..nd |->
                       << Tok1("OP", l + i - 1, "@") >>
                         \o ExprToks(d.decos[i], l + i - 1)
                         \o << Tok1("NEWLINE", l + i - 1, "\n") >>], <<>>)
                 \o (IF d.async THEN << Tok1("NAME", ld, "async") >> ELSE <<>>)
                 \o << Tok1("NAME", ld, "def"), Tok1("NAME", ld, d.name),
                       Tok1("OP", ld, "(") >>
                 \o ParamToks(d.args, d.kwonlyargs, ld)
                 \o << Tok1("OP", ld, ")"), Tok1("OP", ld, ":") >>
                 \o TrailToks(d.tc, ld)
                 \o << Tok1("NEWLINE", ld, "\n") >>
                 \o InsertIndent(b.toks)
                 \o << Tok("DEDENT", None, None, <<>>) >>,
             stmts |-> <<
               [type |-> IF d.async THEN "AsyncFunctionDef" ELSE "FunctionDef",
                name |-> d.name,
                args |-> [type |-> "arguments",
                          args |-> [i \in 1..Len(d.args) |->
                                      ArgNode(d.args[i], ld)],
                          kwonlyargs |-> [i \in 1..Len(d.kwonlyargs) |->
                                            ArgNode(d.kwonlyargs[i], ld)]],
                body |-> b.stmts,
                decorator_list |-> [i \in 1..nd |->
                                      ExprNode(d.decos[i], l + i - 1)],
                lineno |-> ld] >>]
    [] d.k = "with" ->
         LET b == BuildSeq(d.body, l + 1)
         IN [h |-> 1 + b.h,
             toks |->
               (IF d.async THEN << Tok1("NAME", l, "async") >> ELSE <<>>)
                 \o << Tok1("NAME", l, "with") >>
                 \o Join([i \in 1..Len(d.items) |-> ExprToks(d.items[i], l)],
                         << Tok1("OP", l, ",") >>)
                 \o << Tok1("OP", l, ":") >>
                 \o TrailToks(d.tc, l)
                 \o << Tok1("NEWLINE", l, "\n") >>
                 \o InsertIndent(b.toks)
                 \o << Tok("DEDENT", None, None, <<>>) >>,
             stmts |-> <<
               [type |-> IF d.async THEN "AsyncWith" ELSE "With",
                items |-> [i \in 1..Len(d.items) |->
                             [type |-> "withitem",
                              context_expr |-> ExprNode(d.items[i], l)]],
                body |-> b.stmts,
                lineno |-> l] >>]
BuildSeq(ds, l) ==
  IF ds = <<>> THEN [h |-> 0, toks |-> <<>>, stmts |-> <<>>]
  ELSE LET u == Build(ds[1], l)
           r == BuildSeq(Tail(ds), l + u.h)
       IN [h |-> u.h + r.h, toks |-> u.toks \o r.toks,
           stmts |-> u.stmts \o r.stmts]

\* tokenize yields the DEDENTs of closed blocks in front of the first token
\* of the next logical line (or of ENDMARKER), at that token's line
RECURSIVE PlaceDedents(_, _)
PlaceDedents(toks, pending) ==
  IF toks = <<>> THEN <<>>
  ELSE LET t == toks[1] IN
       IF t.type = "DEDENT" THEN PlaceDedents(Tail(toks), pending + 1)
       ELSE IF t.type \in {"COMMENT", "NL"}
            THEN << t >> \o PlaceDedents(Tail(toks), pending)
            ELSE [i \in 1..pending |-> Tok("DEDENT", t.start, t.start, <<>>)]
                   \o << t >> \o PlaceDedents(Tail(toks), 0)


(***************************************************************************)
(* A source text: its top-level statements and how the text ends.          *)
(*   "ok"            the text ends after the last statement                *)
(*   "bad_syntax"    a last line  x = = y   (tokenizes, does not parse)    *)
(*   "open_bracket"  a last line  x = (     (EOF in multi-line statement)  *)
(*   "open_string"   a last line  x = """a  (EOF in multi-line string)     *)
(*   "bad_dedent"    last lines   if x: / [4 spaces] y / [2 spaces] z      *)
(***************************************************************************)
Source(stmts, tail) == [stmts |-> stmts, tail |-> tail]

\* `not code`: the empty string
IsEmptyText(code) == code.stmts = <<>> /\ code.tail = "ok"

\* the tokens the tail of the text adds, from line l on
TailToks(tail, l) ==
  CASE tail = "ok" -> << Tok("ENDMARKER", l, l, <<>>) >>
    [] tail = "bad_syntax" ->
         << Tok1("NAME", l, "x"), Tok1("OP", l, "="), Tok1("OP", l, "="),
            Tok1("NAME", l, "y"), Tok1("NEWLINE", l, "\n"),
            Tok("ENDMARKER", l + 1, l + 1, <<>>) >>
    [] tail = "open_bracket" ->
         << Tok1("NAME", l, "x"), Tok1("OP", l, "="), Tok1("OP", l, "("),
            Tok1("NL", l, "\n") >>
    [] tail = "open_string" ->
         << Tok1("NAME", l, "x"), Tok1("OP", l, "=") >>
    [] tail = "bad_dedent" ->
         << Tok1("NAME", l, "if"), Tok1("NAME", l, "x"), Tok1("OP", l, ":"),
            Tok1("NEWLINE", l, "\n"),
            Tok("INDENT", l + 1, l + 1, <<" ">>),
            Tok1("NAME", l + 1, "y"), Tok1("NEWLINE", l + 1, "\n") >>

\* the tokens tokenize.generate_tokens yields for the text before it ends
\* or raises
Tokenize(code) ==
  LET b == BuildSeq(code.stmts, 1)
  IN PlaceDedents(b.toks \o TailToks(code.tail, b.h + 1), 0)

\* how the token generator ends: "ok", or the exception it raises
TokenizeEnd(code) ==
  CASE code.tail \in {"ok", "bad_syntax"} -> "ok"
    [] code.tail \in {"open_bracket", "open_string"} -> "TokenError"
    [] code.tail = "bad_dedent" -> "IndentationError"

\* how ast.parse ends: "ok", or the exception it raises
ParseEnd(code) ==
  CASE code.tail = "ok" -> "ok"
    [] code.tail \in {"bad_syntax", "open_bracket", "open_string"} -> "SyntaxError"
    [] code.tail = "bad_dedent" -> "IndentationError"

\* the tree ast.parse returns
Parse(code) == [type |-> "Module", body |-> BuildSeq(code.stmts, 1).stmts]

\* a handler that takes the named class alone, not the classes derived
\* from it
CatchesExactClass(cls, exc) == exc = cls

\* `except cls:` catches exc (IndentationError derives from SyntaxError)
Catches(cls, exc) ==
  \/ exc = cls
  \/ cls = "SyntaxError" /\ exc = "IndentationError"

(***************************************************************************)
(* The tree.  A node is identified by its path from the root, the          *)
(* positions taken through ast.iter_child_nodes.                           *)
(***************************************************************************)
\* ast.iter_child_nodes(node), in the order of the node's _fields
IterChildNodes(node) ==
  CASE node.type = "Module" -> node.body
    [] node.type \in {"FunctionDef", "AsyncFunctionDef"} ->
         << node.args >> \o node.body \o node.decorator_list
    [] node.type = "arguments" -> node.args \o node.kwonlyargs
    [] node.type \in {"With", "AsyncWith"} -> node.items \o node.body
    [] node.type = "withitem" -> << node.context_expr >>
    [] node.type = "Call" -> << node.func >> \o node.args
    [] node.type = "Attribute" -> << node.value >>
    [] node.type = "Expr" -> << node.value >>
    [] node.type = "Assign" -> node.targets \o << node.value >>
    [] OTHER -> <<>>

RECURSIVE NodeAt(_, _)
NodeAt(node, path) ==
  IF path = <<>> THEN node
  ELSE NodeAt(IterChildNodes(node)[Head(path)], Tail(path))

ChildPaths(node, path) ==
  [i \in 1..Len(IterChildNodes(node)) |-> path \o << i >>]

\* the path of node.decorator_list[i] of the function definition at path
DecoratorPath(node, path, i) == path \o << 1 + Len(node.body) + i >>
\* the path of node.items[i].context_expr of the with statement at path
ContextExprPath(path, i) == path \o << i, 1 >>

\* isinstance(node, cls): the classes of the tree are unrelated leaves
IsInstance(node, cls) == node.type = cls

(***************************************************************************)
(* core.py                                                                 *)
(***************************************************************************)
MOCK_CLASSES ==
  {"Mock", "MagicMock", "AsyncMock", "PropertyMock", "NonCallableMock",
   "NonCallableMagicMock"}
PATCH_FUNCTIONS == {"patch"}

Guidance == "Use real objects, dependency injection, or integration tests"

_get_mock_class_name(node) ==
  IF IsInstance(node, "Name") /\ node.id \in MOCK_CLASSES THEN node.id
  ELSE IF IsInstance(node, "Attribute") /\ node.attr \in MOCK_CLASSES
       THEN node.attr
       ELSE NoName

_get_patch_name(node) ==
  IF IsInstance(node, "Name") /\ node.id \in PATCH_FUNCTIONS THEN node.id
  ELSE IF /\ IsInstance(node, "Call")
          /\ IsInstance(node.func, "Name")
          /\ node.func.id \in PATCH_FUNCTIONS
       THEN node.func.id
  ELSE IF /\ IsInstance(node, "Call")
          /\ IsInstance(node.func, "Attribute")
          /\ IsInstance(node.func.value, "Name")
          /\ node.func.value.id \in PATCH_FUNCTIONS
       THEN node.func.value.id \o "." \o node.func.attr
  ELSE IF /\ IsInstance(node, "Call")
          /\ IsInstance(node.func, "Attribute")
          /\ node.func.attr \in PATCH_FUNCTIONS
       THEN node.func.attr
  ELSE IF /\ IsInstance(node, "Attribute")
          /\ IsInstance(node.value, "Name")
          /\ node.value.id \in PATCH_FUNCTIONS
       THEN node.value.id \o "." \o node.attr
  ELSE IF IsInstance(node, "Attribute") /\ node.attr \in PATCH_FUNCTIONS
       THEN node.attr
       ELSE NoName

\* A finding: the violation appended, and the node it is about.
Finding(line, message, subject) ==
  [line |-> line, message |-> message, subject |-> subject]

RECURSIVE Flatten(_)
Flatten(ss) == IF ss = <<>> THEN <<>> ELSE ss[1] \o Flatten(Tail(ss))

\* _check_function_args: what it appends for the definition node at path
_check_function_args(node, path) ==
  Flatten([i \in 1..Len(node.args.args) |->
    LET arg == node.args.args[i] IN
    IF arg.arg = "mocker"
    THEN << Finding(node.lineno,
                    "pytest-mock 'mocker' fixture detected - " \o Guidance,
                    path) >>
    ELSE IF arg.arg = "monkeypatch"
         THEN << Finding(node.lineno,
                         "pytest 'monkeypatch' fixture detected - " \o Guidance,
                         path) >>
         ELSE <<>>])

\* _check_decorators going through the decorator list from its end
_check_decorators_bottom_up(node, path) ==
  Flatten([k \in 1..Len(node.decorator_list) |->
    LET i == Len(node.decorator_list) + 1 - k
        decorator == node.decorator_list[i]
        patch_name == _get_patch_name(decorator)
    IN IF patch_name /= NoName
       THEN << Finding(decorator.lineno,
                       "@" \o patch_name \o " decorator detected - " \o Guidance,
                       DecoratorPath(node, path, i)) >>
       ELSE <<>>])

\* _check_decorators: what it appends for the definition node at path
_check_decorators(node, path) ==
  Flatten([i \in 1..Len(node.decorator_list) |->
    LET decorator == node.decorator_list[i]
        patch_name == _get_patch_name(decorator)
    IN IF patch_name /= NoName
       THEN << Finding(decorator.lineno,
                       "@" \o patch_name \o " decorator detected - " \o Guidance,
                       DecoratorPath(node, path, i)) >>
       ELSE <<>>])

\* _check_decorators: the ids it adds to processed_calls
DecoratorCallIds(node, path) ==
  { DecoratorPath(node, path, i) : i \in
      { j \in 1..Len(node.decorator_list) :
          /\ _get_patch_name(node.decorator_list[j]) /= NoName
          /\ IsInstance(node.decorator_list[j], "Call") } }

\* _check_calls without the early return on a processed call
_check_calls_without_registry(node, path, processed) ==
  LET mock_class == _get_mock_class_name(node.func) IN
  IF mock_class /= NoName
  THEN << Finding(node.lineno,
                  mock_class \o "() instantiation detected - " \o Guidance,
                  path) >>
  ELSE IF IsInstance(node.func, "Attribute")
          /\ _get_patch_name(node.func) /= NoName
       THEN << Finding(node.lineno,
                       _get_patch_name(node.func) \o "() call detected - "
                         \o Guidance,
                       path) >>
       ELSE <<>>

\* _check_calls without the test that the callee is an attribute access
_check_calls_any_callee(node, path, processed) ==
  IF path \in processed THEN <<>>
  ELSE LET mock_class == _get_mock_class_name(node.func) IN
       IF mock_class /= NoName
       THEN << Finding(node.lineno,
                       mock_class \o "() instantiation detected - " \o Guidance,
                       path) >>
       ELSE IF _get_patch_name(node.func) /= NoName
            THEN << Finding(node.lineno,
                            _get_patch_name(node.func) \o "() call detected - "
                              \o Guidance,
                            path) >>
            ELSE <<>>

\* _check_calls: what it appends for the call node at path
_check_calls(node, path, processed) ==
  IF path \in processed THEN <<>>
  ELSE LET mock_class == _get_mock_class_name(node.func) IN
       IF mock_class /= NoName
       THEN << Finding(node.lineno,
                       mock_class \o "() instantiation detected - " \o Guidance,
                       path) >>
       ELSE IF IsInstance(node.func, "Attribute")
               /\ _get_patch_name(node.func) /= NoName
            THEN << Finding(node.lineno,
                            _get_patch_name(node.func) \o "() call detected - "
                              \o Guidance,
                            path) >>
            ELSE <<>>

\* _check_with_statements: what it appends for the with statement at path
_check_with_statements(node, path) ==
  Flatten([i \in 1..Len(node.items) |->
    LET item == node.items[i]
        patch_name == _get_patch_name(item.context_expr)
    IN IF patch_name /= NoName
       THEN << Finding(item.context_expr.lineno,
                       patch_name \o "() context manager detected - " \o Guidance,
                       ContextExprPath(path, i)) >>
       ELSE <<>>])

\* _check_with_statements: the ids it adds to processed_calls
ContextCallIds(node, path) ==
  { ContextExprPath(path, i) : i \in
      { j \in 1..Len(node.items) :
          /\ _get_patch_name(node.items[j].context_expr) /= NoName
          /\ IsInstance(node.items[j].context_expr, "Call") } }

Violation(f) == [line |-> f.line, message |-> f.message]
ViolationsOf(fs) == [i \in 1..Len(fs) |-> Violation(fs[i])]
SubjectsOf(fs) == [i \in 1..Len(fs) |-> fs[i].subject]

\* the filter with `in` for `not in`
FilterKeepsIgnored(vs, ignored) ==
  SelectSeq(vs, LAMBDA v : v.line \in ignored)

\* [v for v in violations if v["line"] not in ignored_lines]
FilterIgnored(vs, ignored) ==
  SelectSeq(vs, LAMBDA v : v.line \notin ignored)


(***************************************************************************)
(* The source texts the calls are made on.                                 *)
(***************************************************************************)
\* # mockbuster: ignore
IgnoreText ==
  << "#"," ","m","o","c","k","b","u","s","t","e","r",":"," ","i","g","n","o","r","e" >>
\* # note
NoteText == << "#"," ","n","o","t","e" >>
\* """a / b"""
MlPlainText == << "\"","\"","\"","a","\n","b","\"","\"","\"" >>
\* """a / # mockbuster: ignore"""
MlDirectiveText ==
  << "\"","\"","\"","a","\n","#"," ","m","o","c","k","b","u","s","t","e","r",":"," ","i","g","n","o","r","e","\"","\"","\"" >>
\* '# mockbuster: ignore'
StrDirective ==
  EStr(<< "'","#"," ","m","o","c","k","b","u","s","t","e","r",":"," ","i","g","n","o","r","e","'" >>)
\* 'x'
StrX == EStr(<< "'","x","'" >>)

CallMock == ECall(EName("Mock"), <<>>)
CallMagicMock == ECall(EAttr(EName("mock"), "MagicMock"), <<>>)
CallPatchX == ECall(EName("patch"), << StrX >>)
CallPatchValue == ECall(EName("patch"), << EName("value") >>)
CallPatchObject == ECall(EAttr(EName("patch"), "object"), << EName("a") >>)
CallMockPatch == ECall(EAttr(EName("mock"), "patch"), << StrX >>)
CallPatchMock == ECall(EName("patch"), << CallMock >>)
NamePatch == EName("patch")
AttrMockPatch == EAttr(EName("mock"), "patch")
NameFixture == EName("fixture")
CallAppRoute == ECall(EAttr(EName("app"), "route"), << StrX >>)
CallFoo == ECall(EName("foo"), <<>>)
CallMyClass == ECall(EName("MyClass"), <<>>)

\* the sequences over S of length lo..hi
SeqsOf(S, lo, hi) == UNION { [1..n -> S] : n \in lo..hi }

LayoutLines == { SBlank, SComment(IgnoreText), SComment(NoteText) }
Leads == SeqsOf(LayoutLines, 0, MaxLead)

\* statements whose layout the scanner has to get right
LayoutMains ==
  { SExpr(CallMock, tc) : tc \in { <<>>, IgnoreText, NoteText } }
  \cup { SMlStr(text, tc) : text \in { MlPlainText, MlDirectiveText },
                            tc \in { <<>>, IgnoreText } }
  \cup { SMlCall(CallMock, tc) : tc \in { <<>>, IgnoreText } }
  \cup { SAssign("s", StrDirective, tc) : tc \in { <<>>, IgnoreText } }
  \cup { SDef(FALSE, "test_foo", << "mocker" >>, <<>>, << CallPatchX >>, tc, body) :
           tc \in { <<>>, IgnoreText },
           body \in { << SPass >>,
                      << SComment(IgnoreText), SExpr(CallMock, <<>>) >>,
                      << SExpr(CallMock, <<>>), SComment(IgnoreText) >> } }
  \cup { SWith(FALSE, << CallPatchX >>, <<>>,
               << SComment(IgnoreText), SExpr(CallMagicMock, <<>>) >>) }

Follows ==
  { <<>>,
    << SExpr(CallMock, <<>>) >>,
    << SBlank, SAssign("p", CallMockPatch, <<>>) >> }

LayoutSources ==
  { Source(lead \o << m >> \o f, "ok") :
      lead \in Leads, m \in LayoutMains, f \in Follows }

\* texts that do not parse, and of which some do not tokenize either
FailingTails == { "bad_syntax", "open_bracket", "open_string", "bad_dedent" }
FailingSources ==
  { Source(lead \o f, tail) :
      lead \in Leads,
      f \in { <<>>, << SExpr(CallMock, IgnoreText) >> },
      tail \in FailingTails }

\* statements whose syntactic shapes the tree walk has to get right
DecoExprs ==
  { CallPatchX, NamePatch, CallPatchObject, AttrMockPatch, NameFixture,
    CallAppRoute }
ItemExprs ==
  { CallPatchX, CallPatchObject, CallMockPatch, CallPatchMock, NamePatch,
    CallFoo }
ParamLists ==
  { [args |-> <<>>, kwonlyargs |-> <<>>],
    [args |-> << "mocker" >>, kwonlyargs |-> <<>>],
    [args |-> << "mocker", "monkeypatch" >>, kwonlyargs |-> <<>>],
    [args |-> << "monkeypatch", "mocker" >>, kwonlyargs |-> <<>>],
    [args |-> << "monkeypatch", "tmp_path" >>, kwonlyargs |-> <<>>],
    [args |-> << "mock_func" >>, kwonlyargs |-> << "mocker" >>] }

InnerStmts ==
  { SPass,
    SExpr(CallMock, <<>>),
    SExpr(CallPatchMock, <<>>),
    SAssign("mock", CallMyClass, <<>>),
    SAssign("result", CallPatchValue, <<>>),
    SDef(FALSE, "inner", << "mocker" >>, <<>>, << CallPatchX >>, <<>>, << SPass >>),
    SDef(TRUE, "inner", << "monkeypatch" >>, <<>>, <<>>, <<>>, << SPass >>),
    SWith(FALSE, << CallPatchX >>, <<>>, << SExpr(CallMagicMock, <<>>) >>),
    SWith(TRUE, << CallMockPatch >>, <<>>, << SPass >>) }

TreeMains ==
  { SExpr(e, <<>>) :
      e \in { CallMock, CallMagicMock, CallPatchValue, CallPatchObject,
              CallMockPatch, CallPatchMock, NamePatch, CallFoo } }
  \cup { SAssign(t, CallMyClass, <<>>) : t \in { "patch", "mock" } }
  \cup { SDef(async, name, pl.args, pl.kwonlyargs, decos, <<>>, << SPass >>) :
           async \in BOOLEAN, name \in { "test_foo" }, pl \in ParamLists,
           decos \in SeqsOf(DecoExprs, 0, MaxList) }
  \cup { SDef(async, name, << "value" >>, <<>>, <<>>, <<>>, << inner >>) :
           async \in BOOLEAN, name \in { "patch", "test_foo" },
           inner \in InnerStmts }
  \cup { SDef(FALSE, "patch", << "mocker" >>, <<>>, <<>>, <<>>, << SPass >>) }
  \cup { SWith(async, items, <<>>, << inner >>) :
           async \in BOOLEAN, items \in SeqsOf(ItemExprs, 1, MaxList),
           inner \in { SPass, SExpr(CallMock, <<>>) } }

TreeSources ==
  { Source(<< m >> \o f, "ok") :
      m \in TreeMains, f \in { <<>> } }

(***************************************************************************)
(* Texts of comments: spellings of the directive and near misses.          *)
(***************************************************************************)
\* # MOCKBUSTER: IGNORE
UpperText ==
  << "#"," ","M","O","C","K","B","U","S","T","E","R",":"," ","I","G","N","O","R","E" >>
\* # MockBuster: Ignore
MixedText ==
  << "#"," ","M","o","c","k","B","u","s","t","e","r",":"," ","I","g","n","o","r","e" >>
\* #mockbuster:ignore
TightText ==
  << "#","m","o","c","k","b","u","s","t","e","r",":","i","g","n","o","r","e" >>
\* #  mockbuster:  ignore
WideText ==
  << "#"," "," ","m","o","c","k","b","u","s","t","e","r",":"," "," ","i","g","n","o","r","e" >>
\* # mockbuster : ignore
SpacedColonText ==
  << "#"," ","m","o","c","k","b","u","s","t","e","r"," ",":"," ","i","g","n","o","r","e" >>
\* # mockbuster: ignore - legacy
ReasonText ==
  << "#"," ","m","o","c","k","b","u","s","t","e","r",":"," ","i","g","n","o","r","e"," ","-"," ","l","e","g","a","c","y" >>
\* # mockbuster:ignoreme
IgnoremeText ==
  << "#"," ","m","o","c","k","b","u","s","t","e","r",":","i","g","n","o","r","e","m","e" >>
\* # mockbuster ignore
NoColonText ==
  << "#"," ","m","o","c","k","b","u","s","t","e","r"," ","i","g","n","o","r","e" >>
\* # mock buster: ignore
SplitText ==
  << "#"," ","m","o","c","k"," ","b","u","s","t","e","r",":"," ","i","g","n","o","r","e" >>
\* # ignore: mockbuster
WrongOrderText ==
  << "#"," ","i","g","n","o","r","e",":"," ","m","o","c","k","b","u","s","t","e","r" >>
\* # noqa # mockbuster: ignore
LaterText ==
  << "#"," ","n","o","q","a"," ","#"," ","m","o","c","k","b","u","s","t","e","r",":"," ","i","g","n","o","r","e" >>

CommentTexts ==
  { IgnoreText, NoteText, UpperText, MixedText, TightText, WideText,
    SpacedColonText, ReasonText, IgnoremeText, NoColonText, SplitText,
    WrongOrderText, LaterText }

\* each comment text trailing a statement, alone on the line before one,
\* and as the only line of the text
CommentSources ==
  { Source(<< SExpr(CallMock, tc) >>, "ok") : tc \in CommentTexts }
  \cup { Source(<< SComment(tc) >>, "ok") : tc \in CommentTexts }
  \cup { Source(<< SComment(tc), SExpr(CallMock, <<>>) >>, "ok") :
           tc \in CommentTexts }

Sources ==
  { Source(<<>>, "ok") } \cup LayoutSources \cup FailingSources \cup TreeSources
    \cup CommentSources


(***************************************************************************)
(* The state: one source text, and a caller that makes three calls on it,  *)
(*   1  detect_mocks(code, respect_ignores=False)                          *)
(*   2  detect_mocks(code, respect_ignores=True)                           *)
(*   3  extract_ignored_lines(code)                                        *)
(* one after the other, keeping what each returned or raised.              *)
(***************************************************************************)
VARIABLES
  code,                     \* the source text
  call,                     \* the number of the call in progress or due
  pc,                       \* where the call in progress stands
  returned,                 \* what the finished calls returned or raised
  tree,                     \* detect_mocks: tree
  todo,                     \* ast.walk: the deque of nodes to visit
  violations,               \* detect_mocks: violations
  processed_calls,          \* detect_mocks: processed_calls
  subjects,                 \* history: the node each violation is about
  tokens,                   \* extract_ignored_lines: the token generator
  pos,                      \* the number of the next token it yields
  ignored_lines,            \* extract_ignored_lines: ignored_lines
  standalone_comment_line,  \* extract_ignored_lines: standalone_comment_line
  last_line_with_code,      \* extract_ignored_lines: last_line_with_code
  extract_ret               \* detect_mocks: ignored_lines (the scan's result)

vars ==
  << code, call, pc, returned, tree, todo, violations, processed_calls,
     subjects, tokens, pos, ignored_lines, standalone_comment_line,
     last_line_with_code, extract_ret >>

callVars == << code, call, returned >>
walkVars == << tree, todo, violations, processed_calls, subjects >>
scanVars ==
  << tokens, pos, ignored_lines, standalone_comment_line, last_line_with_code >>

Calls ==
  << "detect_mocks(code, respect_ignores=False)",
     "detect_mocks(code, respect_ignores=True)",
     "extract_ignored_lines(code)" >>
NumCalls == Len(Calls)
\* the respect_ignores argument of call c
RespectIgnores(c) == c = 2
IsDetectCall(c) == c \in {1, 2}

NoTree == [type |-> "None"]

Init ==
  /\ code \in Sources
  /\ call = 1
  /\ pc = "idle"
  /\ returned = <<>>
  /\ tree = NoTree
  /\ todo = <<>>
  /\ violations = <<>>
  /\ processed_calls = {}
  /\ subjects = <<>>
  /\ tokens = <<>>
  /\ pos = 1
  /\ ignored_lines = {}
  /\ standalone_comment_line = None
  /\ last_line_with_code = None
  /\ extract_ret = {}

\* the locals of a finished call are gone
WalkReset ==
  /\ tree' = NoTree
  /\ todo' = <<>>
  /\ violations' = <<>>
  /\ processed_calls' = {}
  /\ subjects' = <<>>
  /\ extract_ret' = {}
ScanReset ==
  /\ tokens' = <<>>
  /\ pos' = 1
  /\ ignored_lines' = {}
  /\ standalone_comment_line' = None
  /\ last_line_with_code' = None

Outcome(value, raised) == [value |-> value, raised |-> raised]

\* the call in progress ends: it returns value, or raises (raised /= NoName)
Finish(value, raised) ==
  /\ returned' = Append(returned, Outcome(value, raised))
  /\ call' = call + 1
  /\ pc' = "idle"
  /\ code' = code
  /\ WalkReset
  /\ ScanReset

(***************************************************************************)
(* detect_mocks                                                            *)
(***************************************************************************)
\* the caller calls detect_mocks: violations = [], processed_calls = set()
CallDetectMocks ==
  /\ pc = "idle"
  /\ call <= NumCalls
  /\ IsDetectCall(call)
  /\ pc' = "parse"
  /\ violations' = <<>>
  /\ processed_calls' = {}
  /\ UNCHANGED << callVars, tree, todo, subjects, scanVars, extract_ret >>

\* ast.parse raises and `except SyntaxError` returns the empty list
ParseRaises ==
  /\ pc = "parse"
  /\ ParseEnd(code) /= "ok"
  /\ IF Catches("SyntaxError", ParseEnd(code))
     THEN Finish(violations, NoName)
     ELSE Finish(<<>>, ParseEnd(code))

\* ast.parse returns the tree and ast.walk starts at its root
ParseReturns ==
  /\ pc = "parse"
  /\ ParseEnd(code) = "ok"
  /\ tree' = Parse(code)
  /\ todo' = << <<>> >>
  /\ pc' = "walk"
  /\ UNCHANGED << callVars, violations, processed_calls, subjects, scanVars,
                  extract_ret >>

\* ast.walk yields the next node: popleft, then extend by its children
Walking == pc = "walk" /\ todo /= <<>>
WalkNext(path, node) == todo' = Tail(todo) \o ChildPaths(node, path)

Report(findings) ==
  /\ violations' = violations \o ViolationsOf(findings)
  /\ subjects' = subjects \o SubjectsOf(findings)

\* isinstance(node, ast.FunctionDef)
WalkFunctionDef ==
  /\ Walking
  /\ LET path == Head(todo)
         node == NodeAt(tree, path)
     IN
    /\ WalkNext(path, node)
    /\ IsInstance(node, "FunctionDef")
    /\ Report(_check_function_args(node, path) \o _check_decorators(node, path))
    /\ processed_calls' = processed_calls \cup DecoratorCallIds(node, path)
    /\ UNCHANGED << callVars, pc, tree, scanVars, extract_ret >>

\* isinstance(node, ast.Call)
WalkCall ==
  /\ Walking
  /\ LET path == Head(todo)
         node == NodeAt(tree, path)
     IN
    /\ WalkNext(path, node)
    /\ IsInstance(node, "Call")
    /\ Report(_check_calls(node, path, processed_calls))
    /\ UNCHANGED << callVars, pc, tree, processed_calls, scanVars, extract_ret >>

\* isinstance(node, ast.With)
WalkWith ==
  /\ Walking
  /\ LET path == Head(todo)
         node == NodeAt(tree, path)
     IN
    /\ WalkNext(path, node)
    /\ IsInstance(node, "With")
    /\ Report(_check_with_statements(node, path))
    /\ processed_calls' = processed_calls \cup ContextCallIds(node, path)
    /\ UNCHANGED << callVars, pc, tree, scanVars, extract_ret >>

\* any other node
WalkOther ==
  /\ Walking
  /\ LET path == Head(todo)
         node == NodeAt(tree, path)
     IN
    /\ WalkNext(path, node)
    /\ ~IsInstance(node, "FunctionDef")
    /\ ~IsInstance(node, "Call")
    /\ ~IsInstance(node, "With")
    /\ UNCHANGED << callVars, pc, tree, violations, processed_calls, subjects,
                    scanVars, extract_ret >>

\* the walk is over and respect_ignores is false: return violations
WalkEndsReturn ==
  /\ pc = "walk"
  /\ todo = <<>>
  /\ ~RespectIgnores(call)
  /\ Finish(violations, NoName)

\* the walk is over and respect_ignores is true: extract_ignored_lines(code)
WalkEndsExtract ==
  /\ pc = "walk"
  /\ todo = <<>>
  /\ RespectIgnores(call)
  /\ pc' = "extract"
  /\ UNCHANGED << callVars, walkVars, scanVars, extract_ret >>

\* violations = [v for v in violations if v["line"] not in ignored_lines]
\* and return violations
FilterAndReturn ==
  /\ pc = "filter"
  /\ Finish(FilterIgnored(violations, extract_ret), NoName)

(***************************************************************************)
(* extract_ignored_lines                                                   *)
(***************************************************************************)
\* the caller calls extract_ignored_lines
CallExtractIgnoredLines ==
  /\ pc = "idle"
  /\ call <= NumCalls
  /\ ~IsDetectCall(call)
  /\ pc' = "extract"
  /\ UNCHANGED << callVars, walkVars, scanVars, extract_ret >>

\* extract_ignored_lines returns value, or raises: to the caller, or into
\* detect_mocks, which has no handler around the call
ExtractEnds(value, raised) ==
  IF IsDetectCall(call) /\ raised = NoName
  THEN /\ extract_ret' = value
       /\ pc' = "filter"
       /\ ScanReset
       /\ UNCHANGED << callVars, walkVars >>
  ELSE Finish(value, raised)

\* if not code: return set()
ExtractEmptyText ==
  /\ pc = "extract"
  /\ IsEmptyText(code)
  /\ ExtractEnds({}, NoName)

\* the locals are set and the token generator is made
ExtractStart ==
  /\ pc = "extract"
  /\ ~IsEmptyText(code)
  /\ tokens' = Tokenize(code)
  /\ pos' = 1
  /\ ignored_lines' = {}
  /\ standalone_comment_line' = None
  /\ last_line_with_code' = None
  /\ pc' = "scan"
  /\ UNCHANGED << callVars, walkVars, extract_ret >>

\* the generator yields the next token
Scanning == pc = "scan" /\ pos <= Len(tokens)
ScanNext == pos' = pos + 1

\* a branch that takes string tokens for comments as well
IsCommentOrString(token) == token.type \in {"COMMENT", "STRING"}

\* `token.type == tokenize.COMMENT`
IsComment(token) == token.type = "COMMENT"

\* the tuple of the `elif` without tokenize.NL
SkippedTypesWithoutNL == {"NEWLINE", "INDENT", "DEDENT", "ENCODING", "COMMENT"}

\* the token types the `elif` leaves out
SkippedTypes == {"NEWLINE", "NL", "INDENT", "DEDENT", "ENCODING", "COMMENT"}

\* the value of standalone_comment_line after a matching comment on
\* comment_line
StandaloneAfter(comment_line, last, standalone) ==
  IF last /= comment_line THEN comment_line ELSE standalone

\* a comment token that matches the pattern
ScanIgnoreComment ==
  /\ Scanning
  /\ LET token == tokens[pos] IN
    /\ ScanNext
    /\ IsComment(token)
    /\ ReSearch(token.string)
    /\ ignored_lines' = ignored_lines \cup {token.start}
    /\ standalone_comment_line' =
         StandaloneAfter(token.start, last_line_with_code,
                         standalone_comment_line)
    /\ UNCHANGED << callVars, pc, walkVars, tokens, last_line_with_code,
                    extract_ret >>

\* a comment token that does not match
ScanOtherComment ==
  /\ Scanning
  /\ LET token == tokens[pos] IN
    /\ ScanNext
    /\ IsComment(token)
    /\ ~ReSearch(token.string)
    /\ UNCHANGED << callVars, pc, walkVars, tokens, ignored_lines,
                    standalone_comment_line, last_line_with_code, extract_ret >>

\* the lines in ignored_lines after a token of the `elif` branch at line
IgnoredAfterCode(line, standalone, ignored) ==
  IF standalone /= None THEN ignored \cup {line} ELSE ignored

\* a token whose type is not in the tuple of the `elif`
ScanCode ==
  /\ Scanning
  /\ LET token == tokens[pos] IN
    /\ ScanNext
    /\ ~IsComment(token)
    /\ token.type \notin SkippedTypes
    /\ last_line_with_code' = token.start
    /\ ignored_lines' =
         IgnoredAfterCode(token.start, standalone_comment_line, ignored_lines)
    /\ standalone_comment_line' = None
    /\ UNCHANGED << callVars, pc, walkVars, tokens, extract_ret >>

\* a token whose type is in the tuple of the `elif`
ScanSkipped ==
  /\ Scanning
  /\ LET token == tokens[pos] IN
    /\ ScanNext
    /\ ~IsComment(token)
    /\ token.type \in SkippedTypes
    /\ UNCHANGED << callVars, pc, walkVars, tokens, ignored_lines,
                    standalone_comment_line, last_line_with_code, extract_ret >>

\* the generator is exhausted: return ignored_lines
ScanReturns ==
  /\ pc = "scan"
  /\ pos > Len(tokens)
  /\ TokenizeEnd(code) = "ok"
  /\ ExtractEnds(ignored_lines, NoName)

\* the value extract_ignored_lines returns from its handler
HandlerValue(ignored) == {}

\* the generator raises: `except tokenize.TokenError` returns set(), any
\* other exception leaves the function
ScanRaises ==
  /\ pc = "scan"
  /\ pos > Len(tokens)
  /\ TokenizeEnd(code) /= "ok"
  /\ IF Catches("TokenError", TokenizeEnd(code))
     THEN ExtractEnds(HandlerValue(ignored_lines), NoName)
     ELSE ExtractEnds({}, TokenizeEnd(code))

Next ==
  \/ CallDetectMocks
  \/ ParseRaises
  \/ ParseReturns
  \/ WalkFunctionDef
  \/ WalkCall
  \/ WalkWith
  \/ WalkOther
  \/ WalkEndsReturn
  \/ WalkEndsExtract
  \/ FilterAndReturn
  \/ CallExtractIgnoredLines
  \/ ExtractEmptyText
  \/ ExtractStart
  \/ ScanIgnoreComment
  \/ ScanOtherComment
  \/ ScanCode
  \/ ScanSkipped
  \/ ScanReturns
  \/ ScanRaises

Spec == Init /\ [][Next]_vars


(***************************************************************************)
(* Vocabulary of the properties.                                           *)
(***************************************************************************)
\* a code-bearing token: an identifier, a literal, an operator, punctuation
CodeBearing(t) == t.type \in {"NAME", "NUMBER", "STRING", "OP"}
\* a token that is neither a comment nor a line or block marker
NotLayout(t) == CodeBearing(t) \/ t.type = "ENDMARKER"
\* a comment token carrying the ignore directive
IsDirective(t) == t.type = "COMMENT" /\ ReSearch(t.string)

\* the positions of the directive comments of ts
Directives(ts) == { i \in 1..Len(ts) : IsDirective(ts[i]) }
\* ts[i] is a trailing comment: a code-bearing token in front of it covers
\* its physical line
Trailing(ts, i) ==
  \E j \in 1..(i - 1) :
    /\ CodeBearing(ts[j])
    /\ ts[j].start <= ts[i].start
    /\ ts[i].start <= ts[j].end
\* the position of the first token after position i that satisfies P
FirstAfter(ts, i, P(_)) ==
  { j \in (i + 1)..Len(ts) :
      /\ P(ts[j])
      /\ \A k \in (i + 1)..(j - 1) : ~P(ts[k]) }

\* the tokens the scan has consumed
Scanned == SubSeq(tokens, 1, pos - 1)

\* every call has ended
AllCallsDone == call > NumCalls
Lines(vs) == { vs[i].line : i \in 1..Len(vs) }

\* the lines a scan of ts may hold when a trailing directive comment adds
\* its own line and nothing else: the lines of the directive comments, and
\* for each one that is not trailing the line of the next token after it
OwnLineOnly(ts) ==
  { ts[i].start : i \in Directives(ts) }
    \cup { ts[j].start : j \in UNION { FirstAfter(ts, i, NotLayout) :
                                         i \in { d \in Directives(ts) :
                                                   ~Trailing(ts, d) } } }

\* C1: a directive comment that trails code on its physical line (also the
\* tail of a token begun on an earlier line) adds exactly its own line to
\* the ignored set and no later line, so detect_mocks drops no violation of
\* another line on its account.
C1_TrailingCommentOwnLineOnly ==
  /\ pc = "scan" => ignored_lines \subseteq OwnLineOnly(Scanned)
  /\ (AllCallsDone /\ ParseEnd(code) = "ok") =>
       Lines(returned[1].value) \ Lines(returned[2].value)
         \subseteq OwnLineOnly(Tokenize(code))

\* C2: a standalone directive comment on line N (no code-bearing token in
\* front of it on line N) puts N and the line of the first code-bearing
\* token after it into the result, whatever blank lines, other comments,
\* INDENT or DEDENT tokens lie between and however many lines the statement
\* spans; that token clears the pending marker, so no line other than a
\* directive comment's own and that of the first token after one is added.
C2_StandaloneCommentNextCodeLine ==
  pc = "scan" =>
    /\ \A i \in Directives(Scanned) :
         ~Trailing(Scanned, i) =>
           /\ Scanned[i].start \in ignored_lines
           /\ \A j \in FirstAfter(Scanned, i, CodeBearing) :
                Scanned[j].start \in ignored_lines
    /\ ignored_lines \subseteq
         { Scanned[i].start : i \in Directives(Scanned) }
           \cup { Scanned[j].start :
                    j \in UNION { FirstAfter(Scanned, i, NotLayout) :
                                    i \in Directives(Scanned) } }
    /\ standalone_comment_line /= None =>
         \E i \in Directives(Scanned) :
           /\ Scanned[i].start = standalone_comment_line
           /\ \A j \in (i + 1)..Len(Scanned) : ~NotLayout(Scanned[j])

\* a standalone directive comment, then a line that is blank or holds
\* another comment, then a statement of several lines whose first line is
\* in the result while its last is not
C2_Witness ==
  /\ pc = "scan"
  /\ pos > Len(tokens)
  /\ \E i \in Directives(tokens) :
       /\ ~Trailing(tokens, i)
       /\ \E j \in FirstAfter(tokens, i, CodeBearing) :
            /\ tokens[j].start > tokens[i].start + 1
            /\ tokens[j].start \in ignored_lines
            /\ \E k \in (j + 1)..Len(tokens) :
                 /\ CodeBearing(tokens[k])
                 /\ tokens[k].start = tokens[j].start + 1
                 /\ tokens[k].start \notin ignored_lines

\* C3: for a text that parses, detect_mocks(code, respect_ignores=True) is
\* detect_mocks(code, respect_ignores=False) without the violations whose
\* line is in extract_ignored_lines(code), the others in the same order;
\* with respect_ignores=False the comments are never scanned.
C3_MergeIsPostFilter ==
  /\ (AllCallsDone /\ ParseEnd(code) = "ok") =>
       /\ \A c \in 1..NumCalls : returned[c].raised = NoName
       /\ returned[2].value =
            SelectSeq(returned[1].value,
                      LAMBDA v : v.line \notin returned[3].value)
  /\ call = 1 => pc \notin {"extract", "scan", "filter"}

\* some violations are dropped and others, before and after them, are kept
C3_Witness ==
  /\ AllCallsDone
  /\ ParseEnd(code) = "ok"
  /\ LET raw == returned[1].value IN
     /\ Len(raw) >= 3
     /\ raw[1].line \notin returned[3].value
     /\ raw[2].line \in returned[3].value
     /\ raw[3].line \notin returned[3].value
     /\ Len(returned[2].value) = 2

\* C4: for a text whose tokenization fails part-way, whatever the failure,
\* extract_ignored_lines raises nothing and returns the empty set.
C4_ExtractIsTotal ==
  (AllCallsDone /\ TokenizeEnd(code) /= "ok") =>
    returned[3] = Outcome({}, NoName)

\* C5: for a text that does not parse, detect_mocks raises nothing and
\* returns the empty list with either value of respect_ignores, and neither
\* the walk nor the ignore scan is run.
C5_DetectIsTotal ==
  ParseEnd(code) /= "ok" =>
    /\ \A c \in 1..2 : c < call => returned[c] = Outcome(<<>>, NoName)
    /\ IsDetectCall(call) => pc \in {"idle", "parse"}

\* both calls of detect_mocks returned the empty list on a text on which
\* ast.parse raises IndentationError, and extract_ignored_lines has raised
C5_Witness ==
  /\ AllCallsDone
  /\ ParseEnd(code) = "IndentationError"
  /\ returned[1] = Outcome(<<>>, NoName)
  /\ returned[2] = Outcome(<<>>, NoName)
  /\ returned[3].raised = "IndentationError"


\* the paths of the nodes of the subtree at path
RECURSIVE PathsFrom(_, _)
PathsFrom(node, path) ==
  {path} \cup
    UNION { PathsFrom(IterChildNodes(node)[i], path \o << i >>) :
              i \in 1..Len(IterChildNodes(node)) }
AllPaths(t) == PathsFrom(t, <<>>)

ParentPath(path) == SubSeq(path, 1, Len(path) - 1)
Slot(path) == path[Len(path)]

\* the walk has visited every node of the tree
WalkOver == pc = "walk" /\ todo = <<>>

\* the violations about the node at path whose message is in msgs
Reported(path, msgs) ==
  { i \in 1..Len(violations) :
      subjects[i] = path /\ violations[i].message \in msgs }

IsCallNode(path) == NodeAt(tree, path).type = "Call"
IsDefNode(path) ==
  NodeAt(tree, path).type \in {"FunctionDef", "AsyncFunctionDef"}
IsWithNode(path) == NodeAt(tree, path).type \in {"With", "AsyncWith"}

MockerMessage == "pytest-mock 'mocker' fixture detected - " \o Guidance
MonkeypatchMessage == "pytest 'monkeypatch' fixture detected - " \o Guidance
PatchNames == {"patch", "patch.object", "mock.patch"}
DecoratorMessages ==
  { "@" \o n \o " decorator detected - " \o Guidance : n \in PatchNames }
ContextMessages ==
  { n \o "() context manager detected - " \o Guidance : n \in PatchNames }

\* e resolves to a patch-family name: the bare name, an attribute access
\* X.attr with X the bare name or attr the name, or a call of one of those
ResolvesBare(e) ==
  \/ e.type = "Name" /\ e.id = "patch"
  \/ /\ e.type = "Attribute"
     /\ \/ e.value.type = "Name" /\ e.value.id = "patch"
        \/ e.attr = "patch"
Resolves(e) ==
  IF e.type = "Call" THEN ResolvesBare(e.func) ELSE ResolvesBare(e)

\* the node at path is a call that _check_decorators or
\* _check_with_statements reports: a resolving decorator of a FunctionDef
\* or a resolving context expression of a With
CheckedWithParent(path) ==
  /\ Len(path) >= 1
  /\ IsCallNode(path)
  /\ Resolves(NodeAt(tree, path))
  /\ LET parent == NodeAt(tree, ParentPath(path)) IN
     \/ /\ parent.type = "FunctionDef"
        /\ Slot(path) > 1 + Len(parent.body)
     \/ /\ parent.type = "withitem"
        /\ NodeAt(tree, ParentPath(ParentPath(path))).type = "With"

\* C6: within one call of detect_mocks every call node is the subject of at
\* most one violation; a call reported by the decorator check or by the
\* context-manager check is in processed_calls, and it is so while it still
\* waits in the walk's queue, its definition or with statement having been
\* visited first.
C6_CallReportedOnce ==
  pc = "walk" =>
    /\ \A i, j \in 1..Len(subjects) :
         (i /= j /\ subjects[i] = subjects[j]) => ~IsCallNode(subjects[i])
    /\ \A i \in 1..Len(subjects) :
         ( /\ IsCallNode(subjects[i])
           /\ violations[i].message \in DecoratorMessages \cup ContextMessages )
         => subjects[i] \in processed_calls
    /\ \A k \in 1..Len(todo) :
         CheckedWithParent(todo[k]) =>
           /\ todo[k] \in processed_calls
           /\ Reported(todo[k], DecoratorMessages \cup ContextMessages) /= {}

\* the walk is over, and a decorator or context-manager call that the
\* generic call check would report by itself was reported once
C6_Witness ==
  /\ WalkOver
  /\ \E p \in processed_calls :
       /\ CheckedWithParent(p)
       /\ _check_calls(NodeAt(tree, p), p, {}) /= <<>>
       /\ Cardinality({ i \in 1..Len(subjects) : subjects[i] = p }) = 1

\* the parameters of a definition, of every kind
Parameters(def) == def.args.args \o def.args.kwonlyargs
NamedCount(ps, name) == Cardinality({ i \in 1..Len(ps) : ps[i].arg = name })

\* C7: for every function definition of the tree (nested or not, plain or
\* async) and every parameter of it named mocker or monkeypatch, the raw
\* list holds one violation at the definition's line naming it; other
\* parameters add none.
C7_FixtureParameters ==
  WalkOver =>
    \A path \in { q \in AllPaths(tree) : IsDefNode(q) } :
      LET def == NodeAt(tree, path) IN
      /\ Cardinality(Reported(path, {MockerMessage}))
           = NamedCount(Parameters(def), "mocker")
      /\ Cardinality(Reported(path, {MonkeypatchMessage}))
           = NamedCount(Parameters(def), "monkeypatch")
      /\ \A i \in Reported(path, {MockerMessage, MonkeypatchMessage}) :
           violations[i].line = def.lineno

\* C8: for every function definition of the tree and every decorator of it
\* that resolves to a patch-family name, one violation with a decorator
\* message is reported at the decorator's line; a decorator that does not
\* resolve has none.
C8_PatchDecorators ==
  WalkOver =>
    \A path \in { q \in AllPaths(tree) : IsDefNode(q) } :
      LET def == NodeAt(tree, path) IN
      \A i \in 1..Len(def.decorator_list) :
        LET found == Reported(DecoratorPath(def, path, i), DecoratorMessages) IN
        IF Resolves(def.decorator_list[i])
        THEN /\ Cardinality(found) = 1
             /\ \A k \in found : violations[k].line = def.decorator_list[i].lineno
        ELSE found = {}

\* C9: for every with statement of the tree (plain or async) and every item
\* of it whose expression resolves to a patch-family name, one violation
\* with a context-manager message is reported at the expression's line.
C9_PatchContextManagers ==
  WalkOver =>
    \A path \in { q \in AllPaths(tree) : IsWithNode(q) } :
      LET with == NodeAt(tree, path) IN
      \A i \in 1..Len(with.items) :
        LET found == Reported(ContextExprPath(path, i), ContextMessages) IN
        IF Resolves(with.items[i].context_expr)
        THEN /\ Cardinality(found) = 1
             /\ \A k \in found :
                  violations[k].line = with.items[i].context_expr.lineno
        ELSE found = {}

(***************************************************************************)
(* C10: the syntactic roles of the names patch and mock.                   *)
(***************************************************************************)
MonitoredNames == {"patch", "mock"}

\* the node at path is a target of an assignment
IsAssignTarget(t, path) ==
  /\ path /= <<>>
  /\ NodeAt(t, ParentPath(path)).type = "Assign"
  /\ Slot(path) <= Len(NodeAt(t, ParentPath(path)).targets)

\* the node at path is a decorator of a definition or the expression of a
\* with item
IsDecoratorOrItem(t, path) ==
  /\ path /= <<>>
  /\ LET parent == NodeAt(t, ParentPath(path)) IN
     \/ /\ parent.type \in {"FunctionDef", "AsyncFunctionDef"}
        /\ Slot(path) > 1 + Len(parent.body)
     \/ parent.type = "withitem"

\* the node at path is the callee of a plain call expression
IsPlainCallee(t, path) ==
  /\ path /= <<>>
  /\ NodeAt(t, ParentPath(path)).type = "Call"
  /\ Slot(path) = 1
  /\ ~IsDecoratorOrItem(t, ParentPath(path))

\* patch and mock occur only as the name of a definition, as an assignment
\* target or as the bare-name callee of a plain call, and no name of the
\* mock-class set is called
OnlyCoincidingNames(t) ==
  \A path \in AllPaths(t) :
    LET node == NodeAt(t, path) IN
    /\ node.type = "Name" =>
         (node.id \in MonitoredNames =>
            (IsAssignTarget(t, path) \/ IsPlainCallee(t, path)))
    /\ node.type = "Attribute" => node.attr \notin MonitoredNames
    /\ node.type = "arg" => node.arg \notin MonitoredNames
    /\ node.type = "Call" =>
         /\ node.func.type = "Name" => node.func.id \notin MOCK_CLASSES
         /\ node.func.type = "Attribute" => node.func.attr \notin MOCK_CLASSES

\* no definition has a parameter named mocker or monkeypatch
NoFixtureParameter(t) ==
  \A path \in AllPaths(t) :
    NodeAt(t, path).type = "arg" =>
      NodeAt(t, path).arg \notin {"mocker", "monkeypatch"}

\* C10 as stated: a program in which patch and mock occur only in those
\* roles, and which calls no mock class, yields no violation.
C10_Original ==
  (WalkOver /\ OnlyCoincidingNames(tree)) => violations = <<>>

\* C10 as amended: a program in which patch and mock occur only as the name
\* of a definition, as an assignment target or as the bare-name callee of a
\* plain call, which calls no mock class and which has no parameter named
\* mocker or monkeypatch, yields no violation.
C10_NoFalsePositiveOnNames ==
  (WalkOver /\ OnlyCoincidingNames(tree) /\ NoFixtureParameter(tree))
    => violations = <<>>

\* a function named patch is defined and patch is called by its bare name,
\* and the walk has ended without a violation
C10_Witness ==
  /\ WalkOver
  /\ OnlyCoincidingNames(tree)
  /\ NoFixtureParameter(tree)
  /\ violations = <<>>
  /\ \E p, q \in AllPaths(tree) :
       /\ NodeAt(tree, p).type = "FunctionDef"
       /\ NodeAt(tree, p).name = "patch"
       /\ NodeAt(tree, q).type = "Call"
       /\ NodeAt(tree, q).func.type = "Name"
       /\ NodeAt(tree, q).func.id = "patch"


(***************************************************************************)
(* String literals and the scanner.                                        *)
(***************************************************************************)
\* a string token whose text holds the directive
IsDirectiveString(t) == t.type = "STRING" /\ ReSearch(t.string)

\* C11: only comment tokens are inspected.  A string token, whatever its
\* text, acts as an ordinary code-bearing token: once it is consumed no
\* standalone comment is pending, it is the last line with code, the lines
\* it runs over after its first are not in the ignored set, and its first
\* line is there only on account of a directive comment; a text without a
\* directive comment token keeps the set empty and the marker unset.
C11_StringsAreNotInspected ==
  pc = "scan" =>
    /\ (pos > 1 /\ tokens[pos - 1].type = "STRING") =>
         LET t == tokens[pos - 1] IN
         /\ standalone_comment_line = None
         /\ last_line_with_code = t.start
         /\ \A l \in (t.start + 1)..t.end : l \notin ignored_lines
         /\ t.start \in ignored_lines => Directives(Scanned) /= {}
    /\ Directives(Scanned) = {} =>
         /\ ignored_lines = {}
         /\ standalone_comment_line = None

\* a string holding the directive has just been consumed, over two lines,
\* in a text without any directive comment
C11_Witness ==
  /\ pc = "scan"
  /\ pos > 1
  /\ IsDirectiveString(tokens[pos - 1])
  /\ tokens[pos - 1].end > tokens[pos - 1].start
  /\ Directives(tokens) = {}
  /\ ignored_lines = {}


(***************************************************************************)
(* The surface syntax of the directive.                                    *)
(***************************************************************************)
\* the comment begins with the directive: # \s* mockbuster \s* : \s* ignore \b
BeginsWithDirective(s) == PatternAt(s, 1)
\* the positions of the comments of ts that begin with the directive
LeadingDirectives(ts) ==
  { i \in 1..Len(ts) :
      ts[i].type = "COMMENT" /\ BeginsWithDirective(ts[i].string) }

\* C12: a comment token counts as an ignore directive exactly when it
\* begins with the directive, compared case-insensitively.  The line of
\* every such comment is in the ignored set once it is scanned, and the set
\* holds nothing but the lines of such comments and the lines of the first
\* token after one; a comment whose leading text is not the directive adds
\* nothing.
C12_DirectiveMatching ==
  pc = "scan" =>
    /\ \A i \in LeadingDirectives(Scanned) : Scanned[i].start \in ignored_lines
    /\ ignored_lines \subseteq
         { Scanned[i].start : i \in LeadingDirectives(Scanned) }
           \cup { Scanned[j].start :
                    j \in UNION { FirstAfter(Scanned, i, NotLayout) :
                                    i \in LeadingDirectives(Scanned) } }


(***************************************************************************)
(* The name a patch violation records.                                     *)
(***************************************************************************)
\* the dotted name of an expression as it is written: a bare name, an
\* attribute access on a bare name, or the callee of a call
DottedName(e) ==
  IF e.type = "Call"
  THEN IF e.func.type = "Name" THEN e.func.id
       ELSE e.func.value.id \o "." \o e.func.attr
  ELSE IF e.type = "Name" THEN e.id
       ELSE e.value.id \o "." \o e.attr

\* the messages that record the patch name n
PatchMessages(n) ==
  { "@" \o n \o " decorator detected - " \o Guidance,
    n \o "() context manager detected - " \o Guidance,
    n \o "() call detected - " \o Guidance }

\* C13: a violation about a decorator, a context-manager item or a direct
\* call that resolves to a patch-family name records the canonical dotted
\* name of that expression: patch for patch and patch(...), patch.object
\* for patch.object and patch.object(...), mock.patch for mock.patch and
\* mock.patch(...).
C13_CanonicalPatchName ==
  pc = "walk" =>
    \A i \in 1..Len(violations) :
      LET e == NodeAt(tree, subjects[i]) IN
      (e.type \in {"Name", "Attribute", "Call"} /\ Resolves(e)) =>
        violations[i].message \in PatchMessages(DottedName(e))


(***************************************************************************)
(* The order of the violations.                                            *)
(***************************************************************************)
\* path p comes before path q in the walk: ast.walk is breadth-first, so a
\* node nearer the root comes first, and of two nodes at the same depth the
\* one whose path is the smaller, slot by slot
WalkedBefore(p, q) ==
  \/ Len(p) < Len(q)
  \/ /\ Len(p) = Len(q)
     /\ \E k \in 1..Len(p) :
          /\ p[k] < q[k]
          /\ \A m \in 1..(k - 1) : p[m] = q[m]
\* p is a proper ancestor of q
IsAncestor(p, q) == Len(p) < Len(q) /\ SubSeq(q, 1, Len(p)) = p

\* the node at whose visit violation i was appended: the definition for a
\* decorator violation, the with statement for a context-manager
\* violation, the node itself otherwise
Discoverer(i) ==
  IF violations[i].message \in DecoratorMessages
  THEN ParentPath(subjects[i])
  ELSE IF violations[i].message \in ContextMessages
       THEN ParentPath(ParentPath(subjects[i]))
       ELSE subjects[i]

IsFixtureViolation(i) ==
  violations[i].message \in {MockerMessage, MonkeypatchMessage}
IsDecoratorViolation(i) == violations[i].message \in DecoratorMessages
\* the parameter name a fixture message is about
FixtureName(message) ==
  IF message = MockerMessage THEN "mocker" ELSE "monkeypatch"

\* C14: the violations are in the order in which the walk discovers them.
\* For violations i before j: the node that discovered j is not walked
\* before the node that discovered i, and j is not about an ancestor of
\* the node i is about; for one function definition the fixture violations
\* come in parameter order and before the decorator violations, and the
\* decorator violations in the order of the decorator list.
C14_ViolationOrder ==
  pc = "walk" =>
    \A i, j \in 1..Len(violations) :
      i < j =>
        /\ ~WalkedBefore(Discoverer(j), Discoverer(i))
        /\ ~IsAncestor(subjects[j], subjects[i])
        /\ Discoverer(i) = Discoverer(j) =>
             /\ ~(IsDecoratorViolation(i) /\ IsFixtureViolation(j))
             /\ (IsDecoratorViolation(i) /\ IsDecoratorViolation(j)) =>
                  Slot(subjects[i]) < Slot(subjects[j])
             /\ (IsFixtureViolation(i) /\ IsFixtureViolation(j)) =>
                  LET ps == Parameters(NodeAt(tree, subjects[i])) IN
                  \E a, b \in 1..Len(ps) :
                    /\ a < b
                    /\ ps[a].arg = FixtureName(violations[i].message)
                    /\ ps[b].arg = FixtureName(violations[j].message)

\* the walk is over for a definition with two fixture parameters, the
\* second-named first, and two patch decorators: four violations about it,
\* and the list is not in line order
C14_Witness ==
  /\ WalkOver
  /\ \E i, j, k, l \in 1..Len(violations) :
       /\ i < j /\ j < k /\ k < l
       /\ violations[i].message = MonkeypatchMessage
       /\ violations[j].message = MockerMessage
       /\ IsDecoratorViolation(k) /\ IsDecoratorViolation(l)
       /\ Discoverer(k) = subjects[i] /\ Discoverer(l) = subjects[j]
       /\ subjects[i] = subjects[j]
       /\ violations[j].line > violations[k].line
       /\ violations[k].line < violations[l].line


(***************************************************************************)
(* The state of the scanner.                                               *)
(***************************************************************************)
\* the positions of the code-bearing tokens of ts
CodePositions(ts) == { i \in 1..Len(ts) : CodeBearing(ts[i]) }
\* the position of the last code-bearing token of ts, 0 when it has none
LastCodePosition(ts) ==
  IF CodePositions(ts) = {} THEN 0
  ELSE CHOOSE i \in CodePositions(ts) : \A k \in CodePositions(ts) : k <= i
\* the last line of the text: where its last token other than the
\* end-of-input marker and the dedents in front of it ends
LastLine(ts) ==
  LET real == { i \in 1..Len(ts) : ts[i].type \notin {"ENDMARKER", "DEDENT"} }
  IN IF real = {} THEN 0
     ELSE ts[CHOOSE i \in real : \A k \in real : k <= i].end

\* C15: only code-bearing tokens update last_line_with_code or consume a
\* pending standalone comment: last_line_with_code is the line of the last
\* code-bearing token scanned (none before the first), a standalone
\* directive comment scanned after that token is still pending, and every
\* member of the ignored set is the line of a directive comment or of a
\* code-bearing token scanned, and no line past the last line of the text.
C15_ScannerStateDiscipline ==
  pc = "scan" =>
    LET last == LastCodePosition(Scanned) IN
    /\ last_line_with_code = IF last = 0 THEN None ELSE Scanned[last].start
    /\ \A d \in Directives(Scanned) :
         (d > last /\ ~Trailing(Scanned, d)
            /\ \A e \in Directives(Scanned) : e <= d) =>
           standalone_comment_line = Scanned[d].start
    /\ ignored_lines \subseteq
         { Scanned[i].start : i \in Directives(Scanned) \cup CodePositions(Scanned) }
    /\ \A l \in ignored_lines : l <= LastLine(tokens)

====
